---- MODULE Spec2Model ----
(***************************************************************************)
(* State-machine model of the download pipeline of kib_yt_dl_c_backend:    *)
(* the request handler RequestHandler.do_GET (app/main.py), the            *)
(* synchronous orchestrator yt_download and the streaming generator        *)
(* yt_download_streaming (app/routes/yt_download.py), together with the    *)
(* helpers they call (url_validator.py, tool_check.py).                    *)
(*                                                                         *)
(* Text is modelled at token granularity: a URL and an output line are     *)
(* sequences of tokens, and a substring test of the code is evaluated on   *)
(* the tokens that carry the substring.                                    *)
(***************************************************************************)
EXTENDS Integers, Sequences, FiniteSets, TLC

\* ------------------------------------------------------------------ bounds

\* Largest number of output lines the download subprocess writes before it
\* closes its output.
MaxLines == 2

\* ------------------------------------------------------------ url_validator

\* The alternatives of one regular expression of `patterns`, each a sequence
\* of token sets; "(www\.)?" is expanded into two alternatives.
Scheme == {"http://", "https://"}

AnyPath == {"/", "/watch?v=", "/embed/", "/playlist?list=", "/shorts/"}

patterns ==
  << {<<Scheme, {"www."}, {"youtube.com"}, {"/watch?v="}>>,
      <<Scheme, {"youtube.com"}, {"/watch?v="}>>},
     {<<Scheme, {"youtube.com"}, {"/watch?v="}>>},
     {<<Scheme, {"youtu.be"}, AnyPath>>},
     {<<Scheme, {"www."}, {"youtube.com"}, {"/embed/"}>>,
      <<Scheme, {"youtube.com"}, {"/embed/"}>>},
     {<<Scheme, {"music."}, {"youtube.com"}, {"/watch?v="}>>},
     {<<Scheme, {"www."}, {"youtube.com"}, {"/playlist?list="}>>,
      <<Scheme, {"youtube.com"}, {"/playlist?list="}>>} >>

\* re.match(p, url): the pattern matches a prefix of the url.
re_match(alt, url) ==
  /\ Len(url) >= Len(alt)
  /\ \A i \in 1..Len(alt) : url[i] \in alt[i]

\* url.strip(): leading and trailing blanks removed.
RECURSIVE LStrip(_)
LStrip(s) == IF s # <<>> /\ Head(s) = " " THEN LStrip(Tail(s)) ELSE s

RECURSIVE RStrip(_)
RStrip(s) ==
  IF s # <<>> /\ s[Len(s)] = " " THEN RStrip(SubSeq(s, 1, Len(s) - 1)) ELSE s

strip(s) == RStrip(LStrip(s))

is_valid_youtube_url(url) ==
  IF strip(url) = <<>>
    THEN FALSE
    ELSE \E k \in 1..Len(patterns) : \E alt \in patterns[k] : re_match(alt, url)

\* The URLs a request may carry; <<>> is the absent or empty parameter.
Urls ==
  { <<>>,
    <<"https://", "www.", "youtube.com", "/watch?v=", "id">>,
    <<"http://", "youtu.be", "/", "id">>,
    <<"https://", "youtu.be", "/", "id", "\"", ";", "reboot", ";", "\"">>,
    <<"https://", "music.", "youtube.com", "/playlist?list=", "id">>,
    <<" ", "https://", "youtube.com", "/watch?v=", "id">>,
    <<" ">> }

\* --------------------------------------------------------------- tool_check

required_tools == <<"yt-dlp", "ffmpeg">>

\* What running a tool does: "ok" runs and exits 0, "broken" runs and exits
\* nonzero (CalledProcessError), "absent" is not on the path
\* (FileNotFoundError), "denied" is on the path but cannot be executed
\* (PermissionError, which check_tool_exists does not catch).
ToolStates == {"ok", "broken", "absent", "denied"}

\* A process is created only when the executable can be started.
ToolRuns(st) == st \in {"ok", "broken"}

\* check_tool_exists(tool) on a tool in state st: "true", "false" or "raise".
check_tool_exists(st) ==
  CASE st = "ok" -> "true"
    [] st \in {"broken", "absent"} -> "false"
    [] OTHER -> "raise"

\* get_tool_version(tool): catches every exception; the number of processes
\* it creates.
get_tool_version(st) == IF ToolRuns(st) THEN 1 ELSE 0

\* MissingFrom with the list cut at the first missing tool.
RECURSIVE MissingFrom_FirstOnly(_, _)
MissingFrom_FirstOnly(ts, i) ==
  IF i > Len(required_tools)
    THEN [missing |-> <<>>, probes |-> 0, raised |-> FALSE]
    ELSE LET tool == required_tools[i]
             r == check_tool_exists(ts[tool])
         IN IF r = "raise"
              THEN [missing |-> <<>>, probes |-> 0, raised |-> TRUE]
              ELSE IF r = "false"
                THEN [missing |-> <<tool>>,
                      probes |-> IF ToolRuns(ts[tool]) THEN 1 ELSE 0,
                      raised |-> FALSE]
                ELSE LET rest == MissingFrom_FirstOnly(ts, i + 1)
                     IN [rest EXCEPT !.probes = @ + 1]

\* missing = [tool for tool in required_tools if not check_tool_exists(tool)],
\* evaluated left to right from index i: the list of missing tools, the
\* number of probe processes created, and whether the evaluation raised.
RECURSIVE MissingFrom(_, _)
MissingFrom(ts, i) ==
  IF i > Len(required_tools)
    THEN [missing |-> <<>>, probes |-> 0, raised |-> FALSE]
    ELSE LET tool == required_tools[i]
             r == check_tool_exists(ts[tool])
         IN IF r = "raise"
              THEN [missing |-> <<>>, probes |-> 0, raised |-> TRUE]
              ELSE LET rest == MissingFrom(ts, i + 1)
                   IN [missing |-> IF r = "false"
                                     THEN <<tool>> \o rest.missing
                                     ELSE rest.missing,
                       probes |-> (IF ToolRuns(ts[tool]) THEN 1 ELSE 0)
                                    + rest.probes,
                       raised |-> rest.raised]

\* tool_versions = {tool: get_tool_version(tool) for tool in required_tools}
VersionProbes(ts) ==
  get_tool_version(ts[required_tools[1]])
    + get_tool_version(ts[required_tools[2]])

\* ------------------------------------------- output lines of the subprocess

\* An output line is the sequence of its tokens; the token " " stands for a
\* blank in excess of the single blank that separates two tokens.
OutputLines ==
  { <<"[download]", "Destination:", "a.m4a">>,
    <<"[download]", "Destination:", "v.mp4">>,
    <<"[download]", "Destination:", "Merging.mp4">>,
    <<"[download]", "Destination:", "Merging", "50%.mp4">>,
    <<"[download]", "Destination:", "x.bin">>,
    <<"[download]", "Destination:", "v.webm">>,
    <<"[download]", "Destination:", "Audio.MP4">>,
    <<"[download]", "150.0%", "of", "10MiB">>,
    <<"[download]100%">>,
    <<"[youtube]", "Extracting", "URL">>,
    <<"[download]", " ", "42.0%", "of", "10MiB", "at", "1MiB/s", "ETA", "00:05">>,
    <<"[Merger]", "Merging", "formats", "into", "v.mp4">>,
    <<>> }

\* The case-sensitive substrings of a token that the line checks look for.
Markers(tok) ==
  CASE tok = "[download]" -> {"[download]"}
    [] tok = "[Merger]" -> {"[Merger]"}
    [] tok \in {"Merging", "Merging.mp4"} -> {"Merging"}
    [] tok \in {"42.0%", "100%", "150.0%", "50%.mp4"} -> {"%"}
    [] tok = "[download]100%" -> {"[download]", "%"}
    [] OTHER -> {}

\* The substrings of line.lower() that the stream-type check looks for.
LowerMarkers(tok) ==
  CASE tok = "a.m4a" -> {".m4a"}
    [] tok \in {"v.mp4", "Merging.mp4", "50%.mp4"} -> {".mp4"}
    [] tok = "v.webm" -> {".webm"}
    [] tok = "Audio.MP4" -> {"audio", ".mp4"}
    [] OTHER -> {}

\* marker in line
Contains(line, marker) == \E i \in 1..Len(line) : marker \in Markers(line[i])

\* marker in line.lower()
LowerContains(line, marker) ==
  \E i \in 1..Len(line) : marker \in LowerMarkers(line[i])

\* '[download] Destination:' in line: the two words one blank apart.
ContainsDestination(line) ==
  \E i \in 1..(Len(line) - 1) :
    line[i] = "[download]" /\ line[i + 1] = "Destination:"

\* line.split(): the tokens between runs of blanks.
split(line) == SelectSeq(line, LAMBDA tok : tok # " ")

\* parts.index(word) for a word known to be in parts.
index(parts, word) == CHOOSE i \in 1..Len(parts) :
  parts[i] = word /\ \A j \in 1..(i - 1) : parts[j] # word

InParts(parts, word) == \E i \in 1..Len(parts) : parts[i] = word

\* tok.rstrip('%')
rstrip_percent(tok) ==
  CASE tok = "42.0%" -> "42.0"
    [] tok = "100%" -> "100"
    [] tok = "150.0%" -> "150.0"
    [] tok = "[download]100%" -> "[download]100"
    [] OTHER -> tok

\* float(s) succeeds; its value in tenths.
IsFloat(s) == s \in {"42.0", "100", "150.0"}

float(s) == CASE s = "42.0" -> 420 [] s = "100" -> 1000 [] s = "150.0" -> 1500

\* new_stream_type with the video markers looked for first.
new_stream_type_VideoFirst(line) ==
  IF \E m \in {".mp4", ".webm", "video"} : LowerContains(line, m)
    THEN "video"
    ELSE IF \E m \in {".m4a", ".webm", ".opus", "audio"} :
              LowerContains(line, m)
      THEN "audio"
      ELSE "None"

\* The stream type a destination line announces (lines 226-232).
new_stream_type(line) ==
  IF \E m \in {".m4a", ".webm", ".opus", "audio"} : LowerContains(line, m)
    THEN "audio"
    ELSE IF \E m \in {".mp4", ".webm", "video"} : LowerContains(line, m)
      THEN "video"
      ELSE "None"

\* Companion that takes the word itself instead of the token after it.
Companion_Self(parts, word) ==
  IF InParts(parts, word) /\ index(parts, word) + 1 <= Len(parts)
    THEN parts[index(parts, word)]
    ELSE "None"

\* The token after `word` in parts, when there is one (lines 257-270).
Companion(parts, word) ==
  IF InParts(parts, word) /\ index(parts, word) + 1 <= Len(parts)
    THEN parts[index(parts, word) + 1]
    ELSE "None"

\* The progress check of one line (lines 244-276): the progress_data to
\* send, or NoProgress when nothing is sent.
NoProgress == [percent |-> -1, stream_type |-> "None", total_size |-> "None",
               speed |-> "None", eta |-> "None", sent |-> FALSE]

progress_data(line, cur) ==
  LET parts == split(line)
  IN IF Len(parts) >= 2 /\ IsFloat(rstrip_percent(parts[2]))
       THEN [percent |-> float(rstrip_percent(parts[2])),
             stream_type |-> cur,
             total_size |-> Companion(parts, "of"),
             speed |-> Companion(parts, "at"),
             eta |-> Companion(parts, "ETA"),
             sent |-> TRUE]
       ELSE NoProgress

\* ------------------------------------------------------------- ytdlp_helper

\* parse_progress_line returns None.
NoMapping == [none |-> TRUE, percent |-> -1, total_size |-> "None",
              speed |-> "None", eta |-> "None"]

\* parse_progress_line(line): the progress mapping of the line, or None.
parse_progress_line(line) ==
  IF ~Contains(line, "[download]") \/ ~Contains(line, "%")
    THEN NoMapping
    ELSE LET parts == split(line)
         IN IF Len(parts) < 2
              THEN NoMapping
              ELSE IF ~IsFloat(rstrip_percent(parts[2]))
                THEN NoMapping
                ELSE [none |-> FALSE,
                      percent |-> float(rstrip_percent(parts[2])),
                      total_size |-> Companion(parts, "of"),
                      speed |-> Companion(parts, "at"),
                      eta |-> Companion(parts, "ETA")]

\* detect_stream_type without the test for a destination line.
detect_stream_type_AnyLine(line) ==
  IF (\E m \in {".m4a", ".webm", ".opus"} : LowerContains(line, m))
       \/ LowerContains(line, "audio")
    THEN "audio"
    ELSE IF (\E m \in {".mp4", ".webm"} : LowerContains(line, m))
              \/ LowerContains(line, "video")
      THEN "video"
      ELSE "None"

\* detect_stream_type(line): "audio", "video" or None.
detect_stream_type(line) ==
  IF ~ContainsDestination(line)
    THEN "None"
    ELSE IF (\E m \in {".m4a", ".webm", ".opus"} : LowerContains(line, m))
              \/ LowerContains(line, "audio")
      THEN "audio"
      ELSE IF (\E m \in {".mp4", ".webm"} : LowerContains(line, m))
                \/ LowerContains(line, "video")
        THEN "video"
        ELSE "None"

\* -------------------------------------------------------------- send_event

\* send_event(event_type, data), tagged with the number of the output line
\* that caused it (0: none).
send_event(event_type, data, n) ==
  [type |-> event_type, data |-> data, line |-> n]

\* -------------------------------------------------------------------- state

VARIABLES
  tools,                \* tool name -> what running it does (the host)
  connected,            \* the client still accepts what is written to it
  request,              \* the request being served: url, stream, binary
  hpc,                  \* where do_GET is
  pc,                   \* where yt_download / yt_download_streaming is
  pending,              \* the event the generator yielded, not yet written
  events,               \* every event or result the orchestrator produced
  wire,                 \* the frames written to the client, in order
  response,             \* the status line and body of a non-streaming answer
  process,              \* the download subprocess
  lines,                \* the output lines read from the subprocess so far
  current_stream_type,  \* local of yt_download_streaming
  metadata,             \* the metadata subprocess
  probes,               \* processes created by the tool check and versions
  dirCreated,           \* os.makedirs(output_dir) has been carried out
  outdir,               \* the output directory on the host
  shell,                \* the command lines run_shell_command has run
  fault,                \* an exception reached an except clause
  orphans               \* download subprocesses of earlier requests that
                        \* are still running

vars == <<tools, connected, request, hpc, pc, pending, events, wire, response,
          process, lines, current_stream_type, metadata, probes, dirCreated,
          outdir, shell, fault, orphans>>

\* The paths of do_GET that are modelled.
Paths == {"/yt_download", "/yt_details"}

NoRequest == [path |-> "none", url |-> <<>>, stream |-> FALSE,
              binary |-> FALSE]

NoEvent == [type |-> "none", data |-> [status |-> "none"], line |-> 0]

\* A response: the status code, the Content-Type and Content-Disposition
\* headers, what the body is ("json", "video_bytes", "event-stream"), and for
\* a JSON body the pairs of status and message it carries.
NoResponse == [code |-> 0, content_type |-> "none", disposition |-> <<>>,
               body |-> "none", json |-> {}]

\* _set_headers(code) followed by the write of json.dumps(obj).
JsonResponse(code, obj) ==
  [code |-> code, content_type |-> "application/json", disposition |-> <<>>,
   body |-> "json", json |-> obj]

\* What os.makedirs finds: no directory, the directory, or a path at which
\* no directory can be made (a regular file, a parent that is not writable).
OutDirStates == {"absent", "present", "blocked"}

\* os.makedirs(output_dir, exist_ok=True): the directory afterwards, or
\* "raise".
makedirs(dir) == IF dir = "blocked" THEN "raise" ELSE "present"

NoProcess == [state |-> "none", exit |-> -1, waits |-> 0]

NoMetadata == [started |-> 0, outcome |-> "none"]

\* Exit statuses of the download subprocess.
ExitCodes == {0, 1}

\* How the metadata subprocess ends: exit 0 with JSON output, exit nonzero,
\* exit 0 with output that is not JSON, or no exit at all.
MetaOutcomes == {"ok", "nonzero", "badjson", "hang"}

Init ==
  /\ tools \in [{"yt-dlp", "ffmpeg"} -> ToolStates]
  /\ connected = TRUE
  /\ request = NoRequest
  /\ hpc = "idle"
  /\ pc = "idle"
  /\ pending = NoEvent
  /\ events = <<>>
  /\ wire = <<>>
  /\ response = NoResponse
  /\ process = NoProcess
  /\ lines = <<>>
  /\ current_stream_type = "None"
  /\ metadata = NoMetadata
  /\ probes = 0
  /\ dirCreated = FALSE
  /\ outdir \in OutDirStates
  /\ shell = <<>>
  /\ fault = FALSE
  /\ orphans = 0

\* ------------------------------------------------------------ do_GET (entry)

\* do_GET that checks the URL of a streaming request before it sends the
\* headers.
do_GET_ValidatingFirst ==
  /\ hpc = "idle"
  /\ \E path \in Paths, url \in Urls, stream \in BOOLEAN, binary \in BOOLEAN :
       /\ path = "/yt_details" => (~stream /\ ~binary)
       /\ request' = [path |-> path, url |-> url, stream |-> stream,
                      binary |-> binary]
       /\ IF path = "/yt_details"
            THEN IF url = <<>>
              THEN /\ response' = JsonResponse(400,
                        {<<"error", "Missing 'url' parameter">>})
                   /\ hpc' = "returned"
                   /\ pc' = pc
              ELSE /\ response' = [NoResponse EXCEPT
                                     !.code = 200,
                                     !.content_type = "application/json"]
                   /\ hpc' = "details"
                   /\ pc' = pc
            ELSE IF url = <<>>
              THEN /\ response' = JsonResponse(400,
                        {<<"status", "error">>,
                         <<"message", "Missing 'url' query parameter.">>})
                   /\ hpc' = "returned"
                   /\ pc' = pc
              ELSE IF stream /\ ~is_valid_youtube_url(url)
                THEN /\ response' = JsonResponse(400,
                          {<<"status", "error">>,
                           <<"message", "Invalid YouTube URL provided.">>})
                     /\ hpc' = "returned"
                     /\ pc' = pc
              ELSE IF stream
                THEN /\ response' = [NoResponse EXCEPT
                                       !.code = 200,
                                       !.content_type = "text/event-stream",
                                       !.body = "event-stream"]
                     /\ hpc' = "next"
                     /\ pc' = "validate"
                ELSE /\ response' = response
                     /\ hpc' = "sync"
                     /\ pc' = "validate"
  /\ UNCHANGED <<tools, orphans, outdir, connected, pending, events, wire, process,
                 lines, current_stream_type, metadata, probes, shell,
                 dirCreated, fault>>

\* do_GET for a path starting with /yt_details (lines 26-34) or with
\* /yt_download (lines 58-108). /yt_details: a request without url is
\* answered 400 at once, any other gets the headers of a 200 answer and
\* yt_details is called. /yt_download: a request without url is answered 400
\* at once; a streaming request gets its headers and the generator is
\* created; any other request calls yt_download.
do_GET ==
  /\ hpc = "idle"
  /\ \E path \in Paths, url \in Urls, stream \in BOOLEAN, binary \in BOOLEAN :
       /\ path = "/yt_details" => (~stream /\ ~binary)
       /\ request' = [path |-> path, url |-> url, stream |-> stream,
                      binary |-> binary]
       /\ IF path = "/yt_details"
            THEN IF url = <<>>
              THEN /\ response' = JsonResponse(400,
                        {<<"error", "Missing 'url' parameter">>})
                   /\ hpc' = "returned"
                   /\ pc' = pc
              ELSE /\ response' = [NoResponse EXCEPT
                                     !.code = 200,
                                     !.content_type = "application/json"]
                   /\ hpc' = "details"
                   /\ pc' = pc
            ELSE IF url = <<>>
              THEN /\ response' = JsonResponse(400,
                        {<<"status", "error">>,
                         <<"message", "Missing 'url' query parameter.">>})
                   /\ hpc' = "returned"
                   /\ pc' = pc
              ELSE IF stream
                THEN /\ response' = [NoResponse EXCEPT
                                       !.code = 200,
                                       !.content_type = "text/event-stream",
                                       !.body = "event-stream"]
                     /\ hpc' = "next"
                     /\ pc' = "validate"
                ELSE /\ response' = response
                     /\ hpc' = "sync"
                     /\ pc' = "validate"
  /\ UNCHANGED <<tools, orphans, outdir, connected, pending, events, wire, process,
                 lines, current_stream_type, metadata, probes, shell,
                 dirCreated, fault>>

\* The client goes away while the request is being served.
Disconnect ==
  /\ connected
  /\ hpc \in {"next", "write", "sync", "details", "answer"}
  /\ connected' = FALSE
  /\ UNCHANGED <<tools, orphans, outdir, request, hpc, pc, pending, events, wire,
                 response, process, lines, current_stream_type, metadata,
                 probes, shell, dirCreated, fault>>

\* ------------------------------------------------------------- yt_download

\* return {...}: the result of yt_download.
Result(status, message) == [type |-> "result",
                            data |-> [status |-> status, message |-> message,
                                      tools |-> <<>>, file |-> <<>>,
                                      video_bytes |-> FALSE],
                            line |-> 0]

Return(result) ==
  /\ events' = Append(events, result)
  /\ pc' = "done"

\* Lines 24-31: URL validation.
Sync_Validate ==
  /\ hpc = "sync" /\ pc = "validate"
  /\ IF ~is_valid_youtube_url(request.url)
       THEN Return(Result("error", "Invalid YouTube URL provided."))
       ELSE /\ pc' = "toolcheck"
            /\ events' = events
  /\ UNCHANGED <<tools, orphans, outdir, connected, request, hpc, pending, wire,
                 response, process, lines, current_stream_type, metadata,
                 probes, shell, dirCreated, fault>>

\* Lines 33-46: the tool check and the tool versions.
Sync_ToolCheck ==
  /\ hpc = "sync" /\ pc = "toolcheck"
  /\ LET r == MissingFrom(tools, 1)
     IN IF r.raised
          THEN /\ probes' = probes + r.probes
               /\ fault' = TRUE
               /\ Return(Result("error", "Unexpected error"))
          ELSE IF r.missing # <<>>
            THEN /\ probes' = probes + r.probes
                 /\ fault' = fault
                 /\ Return([Result("error", "Missing required tool(s)")
                              EXCEPT !.data.tools = r.missing])
            ELSE /\ probes' = probes + r.probes + VersionProbes(tools)
                 /\ fault' = fault
                 /\ pc' = "download"
                 /\ events' = events
  /\ UNCHANGED <<tools, orphans, outdir, connected, request, hpc, pending, wire,
                 response, process, lines, current_stream_type, metadata,
                 shell, dirCreated>>

\* Sync_Download without the check of result.returncode.
Sync_Download_Unchecked ==
  /\ hpc = "sync" /\ pc = "download"
  /\ makedirs(outdir) # "raise"
  /\ \E code \in ExitCodes :
       /\ outdir' = makedirs(outdir)
       /\ dirCreated' = TRUE
       /\ process' = [state |-> "reaped", exit |-> code, waits |-> 1]
       /\ pc' = "meta"
  /\ UNCHANGED <<tools, orphans, connected, request, hpc, pending, events, wire,
                 response, lines, current_stream_type, metadata, probes, shell,
                 fault>>

\* Lines 48-75: the output directory, then the download subprocess run to
\* its end. os.makedirs or subprocess.run may raise.
Sync_Download ==
  /\ hpc = "sync" /\ pc = "download"
  /\ \/ \* os.makedirs raises
        /\ makedirs(outdir) = "raise"
        /\ fault' = TRUE
        /\ Return(Result("error", "Unexpected error"))
        /\ UNCHANGED <<outdir, dirCreated, process>>
     \/ \* subprocess.run raises
        /\ makedirs(outdir) # "raise"
        /\ outdir' = makedirs(outdir)
        /\ dirCreated' = TRUE
        /\ fault' = TRUE
        /\ Return(Result("error", "Unexpected error"))
        /\ UNCHANGED process
     \/ \E code \in ExitCodes :
          /\ makedirs(outdir) # "raise"
          /\ outdir' = makedirs(outdir)
          /\ dirCreated' = TRUE
          /\ process' = [state |-> "reaped", exit |-> code, waits |-> 1]
          /\ fault' = fault
          /\ IF code # 0
               THEN Return(Result("error", "Download failed"))
               ELSE /\ pc' = "meta"
                    /\ events' = events
  /\ UNCHANGED <<tools, orphans, connected, request, hpc, pending, wire, response,
                 lines, current_stream_type, metadata, probes, shell>>

\* The titles yt-dlp reports, as sequences of characters.
Titles == { <<"a">>, <<"a", " ", "b">> }

\* filename = f"{data.get('title')}.mp4"
filename(title) == title \o <<".", "m", "p", "4">>

\* Lines 77-140: the metadata subprocess (run without a timeout) and the
\* assembly of the response; os.path.exists(filepath) is the host's answer.
Sync_Metadata ==
  /\ hpc = "sync" /\ pc = "meta"
  /\ \E outcome \in MetaOutcomes :
       /\ metadata' = [started |-> metadata.started + 1, outcome |-> outcome]
       /\ CASE outcome = "hang" ->
                 \* subprocess.run never returns
                 /\ pc' = "blocked"
                 /\ UNCHANGED <<events, fault>>
            [] outcome = "nonzero" ->
                 /\ Return(Result("error",
                     "Video downloaded, but failed to retrieve metadata."))
                 /\ UNCHANGED fault
            [] outcome = "badjson" ->
                 /\ fault' = TRUE
                 /\ Return(Result("error",
                     "Failed to parse metadata from yt-dlp output."))
            [] outcome = "ok" ->
                 \/ \* os.path.getsize or the read of the file raises
                    /\ fault' = TRUE
                    /\ Return(Result("error", "Unexpected error"))
                 \/ \E title \in Titles, exists \in BOOLEAN :
                      /\ UNCHANGED fault
                      /\ Return([Result("success", "Video downloaded successfully.")
                                   EXCEPT !.data.file = filename(title),
                                          !.data.video_bytes =
                                            request.binary /\ exists])
  /\ UNCHANGED <<tools, orphans, outdir, connected, request, hpc, pending, wire,
                 response, process, lines, current_stream_type, probes, shell,
                 dirCreated>>

\* urllib.parse.quote(c) for one character: letters, digits and _ . - ~ /
\* stay, every other character becomes % and the two hexadecimal digits of
\* each of its UTF-8 bytes.
quote_char(c) ==
  CASE c = " " -> <<"%", "2", "0">>
    [] c = "%" -> <<"%", "2", "5">>
    [] c = "\"" -> <<"%", "2", "2">>
    [] OTHER -> <<c>>

\* urllib.parse.quote(name)
RECURSIVE quote(_)
quote(name) ==
  IF name = <<>> THEN <<>> ELSE quote_char(Head(name)) \o quote(Tail(name))

\* The JSON body json.dumps(result) as far as it is looked at: status and
\* message.
dumps(result) ==
  {<<"status", result.status>>, <<"message", result.message>>}

\* do_GET_Respond that puts the file name into the header as it is.
do_GET_Respond_Unquoted ==
  /\ hpc = "sync" /\ pc = "done"
  /\ LET result == events[Len(events)].data
     IN IF ~connected
          THEN /\ hpc' = "raised"
               /\ response' = response
          ELSE /\ hpc' = "returned"
               /\ response' =
                    IF request.binary /\ result.status = "success"
                         /\ result.video_bytes
                      THEN [code |-> 200, content_type |-> "video/mp4",
                            disposition |-> <<"attachment; filename*=UTF-8''">>
                                              \o result.file,
                            body |-> "video_bytes", json |-> {}]
                      ELSE JsonResponse(IF result.status = "success"
                                          THEN 200 ELSE 400,
                                        dumps(result))
  /\ UNCHANGED <<tools, orphans, outdir, connected, request, pc, pending, events, wire,
                 process, lines, current_stream_type, metadata, probes, shell,
                 dirCreated, fault>>

\* do_GET lines 90-108: the answer to a non-streaming request: the bytes of
\* the file when they were asked for and the result carries them, else the
\* result as JSON. A write to a client that has gone raises out of do_GET.
do_GET_Respond ==
  /\ hpc = "sync" /\ pc = "done"
  /\ LET result == events[Len(events)].data
     IN IF ~connected
          THEN /\ hpc' = "raised"
               /\ response' = response
          ELSE /\ hpc' = "returned"
               /\ response' =
                    IF request.binary /\ result.status = "success"
                         /\ result.video_bytes
                      THEN [code |-> 200, content_type |-> "video/mp4",
                            disposition |-> <<"attachment; filename*=UTF-8''">>
                                              \o quote(result.file),
                            body |-> "video_bytes", json |-> {}]
                      ELSE JsonResponse(IF result.status = "success"
                                          THEN 200 ELSE 400,
                                        dumps(result))
  /\ UNCHANGED <<tools, orphans, outdir, connected, request, pc, pending, events, wire,
                 process, lines, current_stream_type, metadata, probes, shell,
                 dirCreated, fault>>

\* --------------------------------------------------------------- yt_details

\* How the command of run_shell_command ends: exit 0 with JSON output, exit
\* nonzero, exit 0 with output that is not JSON, exit 0 with JSON whose
\* description is null.
ShellOutcomes == {"ok", "nonzero", "badjson", "nulldesc"}

\* cmd = f'yt-dlp -j --no-warnings "{url}"': the tokens of the command
\* line, blanks included.
details_cmd(url) ==
  <<"yt-dlp", " ", "-j", " ", "--no-warnings", " ", "\"">> \o url \o <<"\"">>

\* subprocess.run(cmd, shell=True): /bin/sh reads the command line from
\* token i on. A double quote opens or closes a quoted stretch; outside one,
\* a blank ends the word and ';' ends the command. `word` is the word being
\* read (`open`: one has been begun), `words` the command being read, `cmds`
\* the commands read so far.
RECURSIVE sh_scan(_, _, _, _, _, _, _)
sh_scan(cmd, i, quoted, open, word, words, cmds) ==
  LET ended == IF open THEN Append(words, word) ELSE words
  IN IF i > Len(cmd)
       THEN IF ended = <<>> THEN cmds ELSE Append(cmds, ended)
       ELSE IF cmd[i] = "\""
         THEN sh_scan(cmd, i + 1, ~quoted, TRUE, word, words, cmds)
         ELSE IF ~quoted /\ cmd[i] = " "
           THEN sh_scan(cmd, i + 1, quoted, FALSE, <<>>, ended, cmds)
           ELSE IF ~quoted /\ cmd[i] = ";"
             THEN sh_scan(cmd, i + 1, quoted, FALSE, <<>>, <<>>,
                          IF ended = <<>> THEN cmds ELSE Append(cmds, ended))
             ELSE sh_scan(cmd, i + 1, quoted, TRUE, Append(word, cmd[i]),
                          words, cmds)

\* The commands the shell runs for the command line: each a sequence of
\* words, the first of them the program.
sh(cmd) == sh_scan(cmd, 1, FALSE, FALSE, <<>>, <<>>, <<>>)

\* The most formats yt-dlp reports for a video.
MaxFormats == 6

\* for f in data.get("formats", [])[:5]
FormatLimit == 5

\* data["formats"] when yt-dlp reports n formats: the n-th has format_id n.
Formats(n) ==
  [i \in 1..n |-> [format_id |-> i, ext |-> "mp4", resolution |-> "720p",
                   filesize_approx |-> 10 * i, vcodec |-> "avc1"]]

\* formats[-5:]: the last entries instead of the first.
formats_available_Last(formats) ==
  [i \in 1..(IF Len(formats) < FormatLimit THEN Len(formats)
             ELSE FormatLimit) |->
     LET f == formats[i + Len(formats)
                        - (IF Len(formats) < FormatLimit THEN Len(formats)
                           ELSE FormatLimit)]
     IN [format_id |-> f.format_id, ext |-> f.ext,
         resolution |-> f.resolution,
         filesize_approx |-> f.filesize_approx]]

\* Lines 63-71: "formats_available", four keys of each of the first five
\* formats.
formats_available(formats) ==
  [i \in 1..(IF Len(formats) < FormatLimit THEN Len(formats)
             ELSE FormatLimit) |->
     [format_id |-> formats[i].format_id, ext |-> formats[i].ext,
      resolution |-> formats[i].resolution,
      filesize_approx |-> formats[i].filesize_approx]]

\* Line 75: the result of a successful yt_details, as far as its lists go:
\* data.formats_available and raw (the whole output of yt-dlp).
DetailsResult(formats) ==
  [type |-> "result",
   data |-> [status |-> "success", message |-> "details", tools |-> <<>>,
             file |-> <<>>, video_bytes |-> FALSE,
             formats_available |-> formats_available(formats),
             raw |-> [formats |-> formats]],
   line |-> 0]

\* yt_details(url), lines 8-82, called by do_GET when the headers of the
\* answer have been sent. The URL check, the tool check, the tool versions,
\* the command, and the result by how the command ended. When the tool
\* check raises, the except clause reads tool_versions, which is not bound
\* yet: that exception leaves yt_details and do_GET.
yt_details ==
  /\ hpc = "details"
  /\ IF ~is_valid_youtube_url(request.url)
       THEN /\ events' = Append(events,
                 Result("error", "Invalid YouTube URL provided."))
            /\ hpc' = "answer"
            /\ UNCHANGED <<probes, shell, fault>>
       ELSE LET r == MissingFrom(tools, 1)
            IN IF r.raised
                 THEN /\ probes' = probes + r.probes
                      /\ fault' = TRUE
                      /\ hpc' = "raised"
                      /\ UNCHANGED <<events, shell>>
                 ELSE IF r.missing # <<>>
                   THEN /\ probes' = probes + r.probes
                        /\ events' = Append(events,
                             [Result("error", "Missing required tool(s)")
                                EXCEPT !.data.tools = r.missing])
                        /\ hpc' = "answer"
                        /\ UNCHANGED <<shell, fault>>
                   ELSE /\ probes' = probes + r.probes + VersionProbes(tools)
                        /\ shell' = Append(shell, details_cmd(request.url))
                        /\ hpc' = "answer"
                        /\ \E outcome \in ShellOutcomes :
                             CASE outcome = "ok" ->
                                    /\ \E n \in 0..MaxFormats :
                                         events' = Append(events,
                                           DetailsResult(Formats(n)))
                                    /\ UNCHANGED fault
                               [] outcome = "nonzero" ->
                                    /\ events' = Append(events,
                                         Result("error", "Error:"))
                                    /\ UNCHANGED fault
                               [] outcome = "badjson" ->
                                    /\ events' = Append(events,
                                         Result("error",
                                           "Failed to parse yt-dlp output"))
                                    /\ fault' = TRUE
                               [] OTHER ->
                                    /\ events' = Append(events,
                                         Result("error", "Unexpected error"))
                                    /\ fault' = TRUE
  /\ UNCHANGED <<tools, orphans, outdir, connected, request, pc, pending, wire,
                 response, process, lines, current_stream_type, metadata,
                 dirCreated>>

\* do_GET line 34: the result of yt_details is written as the body of the
\* answer whose headers (status 200) went out before yt_details was called.
do_GET_Details ==
  /\ hpc = "answer"
  /\ IF ~connected
       THEN /\ hpc' = "raised"
            /\ response' = response
       ELSE /\ hpc' = "returned"
            /\ response' = [response EXCEPT
                              !.body = "json",
                              !.json = dumps(events[Len(events)].data)]
  /\ UNCHANGED <<tools, orphans, outdir, connected, request, pc, pending, events, wire,
                 process, lines, current_stream_type, metadata, probes, shell,
                 dirCreated, fault>>

\* --------------------------------------------------- yt_download_streaming

\* The data of the events the generator sends.
Info(status) == [status |-> status, message |-> status, tools |-> <<>>]

Failure(message) == [status |-> "error", message |-> message, tools |-> <<>>]

Success(message) == [status |-> "success", message |-> message, tools |-> <<>>]

\* Lines 237-241: the data of the event that announces a stream type.
Downloading(kind) == [status |-> "downloading", stream_type |-> kind,
                      message |-> kind, tools |-> <<>>]

\* yield e: the generator stops and do_GET holds the event.
Yield(e) ==
  /\ pending' = e
  /\ events' = Append(events, e)
  /\ hpc' = "write"

NoYield == UNCHANGED <<pending, events, hpc>>

\* Lines 354-358: the outer except clause sends one error event; the
\* generator ends when it is resumed.
Except ==
  /\ fault' = TRUE
  /\ Yield(send_event("error", Failure("Unexpected error"), 0))
  /\ pc' = "return"

\* Stream_Validate without the return after the error event.
Stream_Validate_NoReturn ==
  /\ hpc = "next" /\ pc = "validate"
  /\ IF ~is_valid_youtube_url(request.url)
       THEN Yield(send_event("error",
                    Failure("Invalid YouTube URL provided."), 0))
       ELSE NoYield
  /\ pc' = "toolcheck"
  /\ UNCHANGED <<tools, orphans, outdir, connected, request, wire, response, process,
                 lines, current_stream_type, metadata, probes, shell,
                 dirCreated, fault>>

\* Lines 159-166: URL validation.
Stream_Validate ==
  /\ hpc = "next" /\ pc = "validate"
  /\ IF ~is_valid_youtube_url(request.url)
       THEN /\ Yield(send_event("error",
                       Failure("Invalid YouTube URL provided."), 0))
            /\ pc' = "return"
       ELSE /\ NoYield
            /\ pc' = "toolcheck"
  /\ UNCHANGED <<tools, orphans, outdir, connected, request, wire, response, process,
                 lines, current_stream_type, metadata, probes, shell,
                 dirCreated, fault>>

\* Lines 168-187: the tool check, the tool versions, the starting event.
Stream_ToolCheck ==
  /\ hpc = "next" /\ pc = "toolcheck"
  /\ LET r == MissingFrom(tools, 1)
     IN IF r.raised
          THEN /\ probes' = probes + r.probes
               /\ Except
          ELSE IF r.missing # <<>>
            THEN /\ probes' = probes + r.probes
                 /\ fault' = fault
                 /\ Yield(send_event("error",
                      [Failure("Missing required tool(s)")
                         EXCEPT !.tools = r.missing], 0))
                 /\ pc' = "return"
            ELSE /\ probes' = probes + r.probes + VersionProbes(tools)
                 /\ fault' = fault
                 /\ Yield(send_event("info", Info("starting"), 0))
                 /\ pc' = "spawn"
  /\ UNCHANGED <<tools, orphans, outdir, connected, request, wire, response, process,
                 lines, current_stream_type, metadata, shell, dirCreated>>

\* Stream_Spawn without the call of os.makedirs.
Stream_Spawn_NoMakedirs ==
  /\ hpc = "next" /\ pc = "spawn"
  /\ \/ \* subprocess.Popen raises
        /\ Except
        /\ UNCHANGED process
     \/ /\ process' = [state |-> "running", exit |-> -1, waits |-> 0]
        /\ pc' = "read"
        /\ NoYield
        /\ UNCHANGED fault
  /\ UNCHANGED <<outdir, dirCreated>>
  /\ UNCHANGED <<tools, orphans, connected, request, wire, response, lines,
                 current_stream_type, metadata, probes, shell>>

\* Lines 189-214: the output directory, then the download subprocess is
\* started. os.makedirs or subprocess.Popen may raise.
Stream_Spawn ==
  /\ hpc = "next" /\ pc = "spawn"
  /\ \/ \* os.makedirs raises
        /\ makedirs(outdir) = "raise"
        /\ Except
        /\ UNCHANGED <<outdir, dirCreated, process>>
     \/ \* subprocess.Popen raises
        /\ makedirs(outdir) # "raise"
        /\ outdir' = makedirs(outdir)
        /\ dirCreated' = TRUE
        /\ Except
        /\ UNCHANGED process
     \/ /\ makedirs(outdir) # "raise"
        /\ outdir' = makedirs(outdir)
        /\ dirCreated' = TRUE
        /\ process' = [state |-> "running", exit |-> -1, waits |-> 0]
        /\ pc' = "read"
        /\ NoYield
        /\ UNCHANGED fault
  /\ UNCHANGED <<tools, orphans, connected, request, wire, response, lines,
                 current_stream_type, metadata, probes, shell>>

\* The download subprocess ends by itself and its output is closed, whether
\* or not anyone still reads it.
ProcessExits ==
  /\ process.state = "running"
  /\ \E code \in ExitCodes :
       process' = [process EXCEPT !.state = "exited", !.exit = code]
  /\ UNCHANGED <<tools, orphans, outdir, connected, request, hpc, pc, pending, events,
                 wire, response, lines, current_stream_type, metadata, probes,
                 shell, dirCreated, fault>>

\* Line 217: process.stdout.readline() returns the next line (one the
\* subprocess writes now, or one it left in the pipe before it exited), or ''
\* once the output is closed and drained, or raises (output that is not
\* valid text).
Stream_ReadLine ==
  /\ hpc = "next" /\ pc = "read"
  /\ \/ /\ Len(lines) < MaxLines
        /\ \E line \in OutputLines :
             lines' = Append(lines, line)
        /\ pc' = "destination"
        /\ NoYield
        /\ UNCHANGED fault
     \/ /\ Except
        /\ UNCHANGED lines
     \/ /\ process.state = "exited"
        /\ pc' = "wait"
        /\ NoYield
        /\ UNCHANGED <<lines, fault>>
  /\ UNCHANGED <<tools, orphans, outdir, connected, request, wire, response, process,
                 current_stream_type, metadata, probes, shell, dirCreated>>

\* Stream_Destination without the comparison with current_stream_type.
Stream_Destination_Resignal ==
  /\ hpc = "next" /\ pc = "destination"
  /\ LET line == strip(lines[Len(lines)])
         new == new_stream_type(line)
     IN IF ContainsDestination(line) /\ new # "None"
          THEN /\ current_stream_type' = new
               /\ Yield(send_event("info", Downloading(new), Len(lines)))
          ELSE /\ current_stream_type' = current_stream_type
               /\ NoYield
  /\ pc' = "progress"
  /\ UNCHANGED <<tools, orphans, outdir, connected, request, wire, response, process,
                 lines, metadata, probes, shell, dirCreated, fault>>

\* Stream_Destination that forgets the stream type on a line that announces
\* none.
Stream_Destination_Forget ==
  /\ hpc = "next" /\ pc = "destination"
  /\ LET line == strip(lines[Len(lines)])
         new == new_stream_type(line)
     IN IF ContainsDestination(line) /\ new # "None"
             /\ new # current_stream_type
          THEN /\ current_stream_type' = new
               /\ Yield(send_event("info", Downloading(new), Len(lines)))
          ELSE /\ current_stream_type' =
                    IF new = "None" THEN "None" ELSE current_stream_type
               /\ NoYield
  /\ pc' = "progress"
  /\ UNCHANGED <<tools, orphans, outdir, connected, request, wire, response, process,
                 lines, metadata, probes, shell, dirCreated, fault>>

\* Lines 221-241: the stream-type check of the line just read.
Stream_Destination ==
  /\ hpc = "next" /\ pc = "destination"
  /\ LET line == strip(lines[Len(lines)])
         new == new_stream_type(line)
     IN IF ContainsDestination(line) /\ new # "None"
             /\ new # current_stream_type
          THEN /\ current_stream_type' = new
               /\ Yield(send_event("info", Downloading(new), Len(lines)))
          ELSE /\ current_stream_type' = current_stream_type
               /\ NoYield
  /\ pc' = "progress"
  /\ UNCHANGED <<tools, orphans, outdir, connected, request, wire, response, process,
                 lines, metadata, probes, shell, dirCreated, fault>>

\* Stream_Progress without the except clauses around float(percent_str).
Stream_Progress_Unguarded ==
  /\ hpc = "next" /\ pc = "progress"
  /\ LET line == strip(lines[Len(lines)])
         data == progress_data(line, current_stream_type)
     IN IF Contains(line, "[download]") /\ Contains(line, "%")
          THEN IF data.sent
                 THEN /\ Yield(send_event("progress", data, Len(lines)))
                      /\ pc' = "read"
                      /\ UNCHANGED fault
                 ELSE IF Len(split(line)) >= 2
                   THEN Except
                   ELSE /\ NoYield
                        /\ pc' = "read"
                        /\ UNCHANGED fault
          ELSE /\ IF Contains(line, "[Merger]") \/ Contains(line, "Merging")
                    THEN Yield(send_event("info", Info("merging"), Len(lines)))
                    ELSE NoYield
               /\ pc' = "read"
               /\ UNCHANGED fault
  /\ UNCHANGED <<tools, orphans, outdir, connected, request, wire, response, process,
                 lines, current_stream_type, metadata, probes, shell,
                 dirCreated>>

\* Lines 243-283: the progress check of the line, else the merge check.
Stream_Progress ==
  /\ hpc = "next" /\ pc = "progress"
  /\ LET line == strip(lines[Len(lines)])
         data == progress_data(line, current_stream_type)
     IN IF Contains(line, "[download]") /\ Contains(line, "%")
          THEN IF data.sent
                 THEN Yield(send_event("progress", data, Len(lines)))
                 ELSE NoYield
          ELSE IF Contains(line, "[Merger]") \/ Contains(line, "Merging")
            THEN Yield(send_event("info", Info("merging"), Len(lines)))
            ELSE NoYield
  /\ pc' = "read"
  /\ UNCHANGED <<tools, orphans, outdir, connected, request, wire, response, process,
                 lines, current_stream_type, metadata, probes, shell,
                 dirCreated, fault>>

\* Stream_Wait without the return after the error event.
Stream_Wait_NoReturn ==
  /\ hpc = "next" /\ pc = "wait"
  /\ process' = [process EXCEPT !.state = "reaped", !.waits = @ + 1]
  /\ IF process.exit # 0
       THEN Yield(send_event("error", Failure("Download failed"), 0))
       ELSE NoYield
  /\ pc' = "meta"
  /\ UNCHANGED <<tools, orphans, outdir, connected, request, wire, response, lines,
                 current_stream_type, metadata, probes, shell, dirCreated,
                 fault>>

\* Lines 285-293: process.wait() and the check of the return code.
Stream_Wait ==
  /\ hpc = "next" /\ pc = "wait"
  /\ process' = [process EXCEPT !.state = "reaped", !.waits = @ + 1]
  /\ IF process.exit # 0
       THEN /\ Yield(send_event("error", Failure("Download failed"), 0))
            /\ pc' = "return"
       ELSE /\ NoYield
            /\ pc' = "meta"
  /\ UNCHANGED <<tools, orphans, outdir, connected, request, wire, response, lines,
                 current_stream_type, metadata, probes, shell, dirCreated,
                 fault>>

\* Lines 295-352: the metadata subprocess (timeout=30) and the complete
\* event; every exception in this part is caught by the inner except clause.
Stream_Metadata ==
  /\ hpc = "next" /\ pc = "meta"
  /\ \E outcome \in MetaOutcomes :
       /\ metadata' = [started |-> metadata.started + 1, outcome |-> outcome]
       /\ CASE outcome = "ok" ->
                 \/ /\ UNCHANGED fault
                    /\ Yield(send_event("complete",
                         Success("Video downloaded successfully."), 0))
                 \/ \* os.path.getsize or the read of the file raises
                    /\ fault' = TRUE
                    /\ Yield(send_event("complete",
                         Success("metadata error"), 0))
            [] outcome = "nonzero" ->
                 /\ UNCHANGED fault
                 /\ Yield(send_event("complete",
                      Success("metadata unavailable"), 0))
            [] OTHER ->
                 \* json.JSONDecodeError or subprocess.TimeoutExpired
                 /\ fault' = TRUE
                 /\ Yield(send_event("complete",
                      Success("metadata error"), 0))
  /\ pc' = "return"
  /\ UNCHANGED <<tools, orphans, outdir, connected, request, wire, response, process,
                 lines, current_stream_type, probes, shell, dirCreated>>

\* The generator is resumed after its last event and ends: the for loop of
\* do_GET is over and do_GET returns.
Stream_Return ==
  /\ hpc = "next" /\ pc = "return"
  /\ pc' = "done"
  /\ hpc' = "returned"
  /\ UNCHANGED <<tools, orphans, outdir, connected, request, pending, events, wire,
                 response, process, lines, current_stream_type, metadata,
                 probes, shell, dirCreated, fault>>

\* do_GET_Write that holds info events back instead of writing them.
do_GET_Write_Dropping ==
  /\ hpc = "write"
  /\ IF connected
       THEN /\ wire' = IF pending.type = "info"
                         THEN wire ELSE Append(wire, pending)
            /\ hpc' = "next"
            /\ pc' = pc
       ELSE /\ wire' = wire
            /\ hpc' = "except"
            /\ pc' = "closed"
  /\ pending' = NoEvent
  /\ UNCHANGED <<tools, orphans, outdir, connected, request, events, response, process,
                 lines, current_stream_type, metadata, probes, shell,
                 dirCreated, fault>>

\* do_GET lines 81-83: the event is written and flushed, then the generator
\* is resumed. A write to a client that has gone raises: the for loop is left,
\* the suspended generator is closed where it stands (GeneratorExit is not
\* an Exception, no clause of the generator runs).
do_GET_Write ==
  /\ hpc = "write"
  /\ IF connected
       THEN /\ wire' = Append(wire, pending)
            /\ hpc' = "next"
            /\ pc' = pc
       ELSE /\ wire' = wire
            /\ hpc' = "except"
            /\ pc' = "closed"
  /\ pending' = NoEvent
  /\ UNCHANGED <<tools, orphans, outdir, connected, request, events, response, process,
                 lines, current_stream_type, metadata, probes, shell,
                 dirCreated, fault>>

\* do_GET lines 84-87: the fallback error frame; its write is not guarded.
do_GET_Fallback ==
  /\ hpc = "except"
  /\ IF connected
       THEN /\ wire' = Append(wire,
                 send_event("error", Failure("transport"), 0))
            /\ hpc' = "returned"
       ELSE /\ wire' = wire
            /\ hpc' = "raised"
  /\ UNCHANGED <<tools, orphans, outdir, connected, request, pc, pending, events,
                 response, process, lines, current_stream_type, metadata,
                 probes, shell, dirCreated, fault>>

\* ------------------------------------------------------------ specification

Next ==
  \/ do_GET
  \/ Disconnect
  \/ Sync_Validate
  \/ Sync_ToolCheck
  \/ Sync_Download
  \/ Sync_Metadata
  \/ do_GET_Respond
  \/ yt_details
  \/ do_GET_Details
  \/ Stream_Validate
  \/ Stream_ToolCheck
  \/ Stream_Spawn
  \/ ProcessExits
  \/ Stream_ReadLine
  \/ Stream_Destination
  \/ Stream_Progress
  \/ Stream_Wait
  \/ Stream_Metadata
  \/ Stream_Return
  \/ do_GET_Write
  \/ do_GET_Fallback

Spec == Init /\ [][Next]_vars

\* do_GET runs in the one thread of serve_forever and nothing preempts it
\* for good: whenever a step of the program is possible, a step is taken.
FairSpec == Spec /\ WF_vars(Next)

TypeOK ==
  /\ hpc \in {"idle", "sync", "details", "answer", "next", "write", "except",
             "returned", "raised"}
  /\ response.code \in {0, 200, 400}
  /\ pc \in {"idle", "validate", "toolcheck", "download", "spawn", "read",
             "destination", "progress", "wait", "meta", "return", "blocked",
             "done", "closed"}
  /\ Len(lines) <= MaxLines

\* ------------------------------------------------------- request after request

\* The most download subprocesses of earlier requests that are followed
\* while they run.
MaxOrphans == 2

\* The download subprocess of the request that is over, if it is still
\* running: nothing has waited for it or ended it.
Unreaped == IF process.state = "running" THEN 1 ELSE 0

\* httpd.serve_forever() (run_server, line 127): do_GET is over, by return
\* or by an exception that the server reports, and the server accepts the
\* next connection. The handler and the generator of the request that is
\* over are dropped; the subprocess it started is a process of its own and
\* goes on if it was running. The host keeps its tools and its output
\* directory.
serve_forever ==
  /\ hpc \in {"returned", "raised"}
  /\ orphans + Unreaped <= MaxOrphans
  /\ orphans' = orphans + Unreaped
  /\ connected' = TRUE
  /\ request' = NoRequest
  /\ hpc' = "idle"
  /\ pc' = "idle"
  /\ pending' = NoEvent
  /\ events' = <<>>
  /\ wire' = <<>>
  /\ response' = NoResponse
  /\ process' = NoProcess
  /\ lines' = <<>>
  /\ current_stream_type' = "None"
  /\ metadata' = NoMetadata
  /\ probes' = 0
  /\ dirCreated' = FALSE
  /\ shell' = <<>>
  /\ fault' = FALSE
  /\ UNCHANGED <<tools, outdir>>

\* A download subprocess of an earlier request ends by itself.
OrphanExits ==
  /\ orphans > 0
  /\ orphans' = orphans - 1
  /\ UNCHANGED <<tools, outdir, connected, request, hpc, pc, pending, events,
                 wire, response, process, lines, current_stream_type,
                 metadata, probes, shell, dirCreated, fault>>

ServerNext == Next \/ serve_forever \/ OrphanExits

\* The server from its start on: one request after the other.
ServerSpec == Init /\ [][ServerNext]_vars

\* --------------------------------------------------- the text of an event

\* The longest message text that is encoded.
MaxText == 3

\* The characters of a message: a letter, a line feed, a double quote, a
\* backslash and a character outside ASCII ("U+00E9" stands for it).
Chars == {"a", "\n", "\"", "\\", "U+00E9"}

Texts == UNION {[1..n -> Chars] : n \in 0..MaxText}

EventTypes == {"info", "progress", "error", "complete"}

\* json.dumps of one character of a string that keeps the line feed as it is.
dumps_char_Raw(c) ==
  CASE c = "\"" -> <<"\\", "\"">>
    [] c = "\\" -> <<"\\", "\\">>
    [] c = "U+00E9" -> <<"\\", "u", "0", "0", "e", "9">>
    [] OTHER -> <<c>>

\* json.dumps of one character of a string (ensure_ascii is on): the escape
\* sequence of a line feed, a double quote, a backslash and a character
\* outside ASCII; any other character as it is.
dumps_char(c) ==
  CASE c = "\n" -> <<"\\", "n">>
    [] c = "\"" -> <<"\\", "\"">>
    [] c = "\\" -> <<"\\", "\\">>
    [] c = "U+00E9" -> <<"\\", "u", "0", "0", "e", "9">>
    [] OTHER -> <<c>>

\* json.dumps(text) of a string: the characters between double quotes.
RECURSIVE dumps_chars(_)
dumps_chars(text) ==
  IF text = <<>> THEN <<>> ELSE dumps_char(Head(text)) \o dumps_chars(Tail(text))

dumps_str(text) == <<"\"">> \o dumps_chars(text) \o <<"\"">>

\* json.dumps(data) of a payload with a status (a plain word) and a message.
json_dumps(data) ==
  <<"{", "\"status\"", ": ", "\"", data.status, "\"", ", ", "\"message\"",
    ": ">> \o dumps_str(data.message) \o <<"}">>

\* f"event: {event_type}\ndata: {json.dumps(data)}\n\n": the string that
\* format_sse_event and send_event (yt_download.py line 157) build.
format_sse_event(event_type, data) ==
  <<"event: ", event_type, "\n", "data: ">> \o json_dumps(data)
    \o <<"\n", "\n">>

\* The generator yields send_event(event_type, data) for some event type
\* and payload: do_GET holds the string.
Sse_send_event ==
  /\ hpc = "next"
  /\ \E event_type \in EventTypes, status \in {"error", "success"},
        message \in Texts :
       LET data == [status |-> status, message |-> message]
       IN /\ pending' = format_sse_event(event_type, data)
          /\ events' = Append(events, [type |-> event_type, data |-> data])
  /\ hpc' = "write"
  /\ UNCHANGED <<tools, orphans, outdir, connected, request, pc, wire, response,
                 process, lines, current_stream_type, metadata, probes, shell,
                 dirCreated, fault>>

\* do_GET lines 82-83: the string is written to the client.
Sse_Write ==
  /\ hpc = "write"
  /\ wire' = Append(wire, pending)
  /\ pending' = <<>>
  /\ hpc' = "returned"
  /\ UNCHANGED <<tools, orphans, outdir, connected, request, pc, events, response,
                 process, lines, current_stream_type, metadata, probes, shell,
                 dirCreated, fault>>

\* A streaming request whose generator is about to produce an event; in
\* this specification pending and wire hold the events as the text that is
\* sent.
SseInit ==
  /\ tools = [t \in {"yt-dlp", "ffmpeg"} |-> "ok"]
  /\ connected = TRUE
  /\ request = [path |-> "/yt_download",
                url |-> <<"http://", "youtu.be", "/", "id">>,
                stream |-> TRUE, binary |-> FALSE]
  /\ hpc = "next"
  /\ pc = "read"
  /\ pending = <<>>
  /\ events = <<>>
  /\ wire = <<>>
  /\ response = [NoResponse EXCEPT !.code = 200,
                                   !.content_type = "text/event-stream",
                                   !.body = "event-stream"]
  /\ process = [state |-> "running", exit |-> -1, waits |-> 0]
  /\ lines = <<>>
  /\ current_stream_type = "None"
  /\ metadata = NoMetadata
  /\ probes = 0
  /\ dirCreated = TRUE
  /\ outdir = "present"
  /\ shell = <<>>
  /\ fault = FALSE
  /\ orphans = 0

SseNext == Sse_send_event \/ Sse_Write

SseSpec == SseInit /\ [][SseNext]_vars

\* ------------------------------------------------------------------ claims

IsSuccess(e) ==
  e.type = "complete" \/ (e.type = "result" /\ e.data.status = "success")

IsError(e) ==
  e.type = "error" \/ (e.type = "result" /\ e.data.status = "error")

IsTerminal(e) == e.type \in {"complete", "error"}

Successes == Cardinality({i \in 1..Len(events) : IsSuccess(events[i])})

Errors == Cardinality({i \in 1..Len(events) : IsError(events[i])})

Last(seq) == seq[Len(seq)]

\* The orchestrator has produced all it will produce for this request.
OrchestratorOver == pc \in {"return", "done", "closed"}

\* do_GET is over, by return or by an exception.
HandlerOver == hpc \in {"returned", "raised"}

\* The request is answered as an event stream.
Streaming == response.body = "event-stream"

\* The request reached an orchestrator with a URL it accepts.
Accepted ==
  /\ request.path = "/yt_download"
  /\ request.url # <<>> /\ is_valid_youtube_url(request.url)

\* The request reached an orchestrator with a URL it rejects.
Rejected ==
  /\ request.path = "/yt_download"
  /\ request.url # <<>> /\ ~is_valid_youtube_url(request.url)

\* C1 (as claimed): when the orchestrator has finished, a success result or
\* complete event was produced only if the download subprocess exited with
\* status 0, and whenever it did and no fault was thrown; a nonzero exit, or
\* a fault thrown before the metadata step, produced exactly one error; and
\* never both a success and an error.
C1_Claim ==
  pc = "done" =>
    /\ Successes >= 1 => process.exit = 0
    /\ (process.exit = 0 /\ ~fault) => Successes >= 1
    /\ (process.exit > 0 \/ (fault /\ metadata.started = 0)) => Errors = 1
    /\ ~(Successes >= 1 /\ Errors >= 1)

\* C2 (as claimed): once the download subprocess exited with status 0, a
\* failed metadata fetch still ends in one success and no error, in both
\* delivery modes.
C2_Claim ==
  (/\ pc \in {"return", "done"}
   /\ process.exit = 0
   /\ metadata.outcome \in {"nonzero", "badjson", "hang"})
    => (Successes = 1 /\ Errors = 0)

\* C3: the metadata subprocess is started at most once and only after the
\* download subprocess was waited for and had exited with status 0; after a
\* nonzero exit the next and last thing produced is the error "Download
\* failed" (answered 400 in synchronous mode) and no metadata subprocess is
\* ever started.
C3_NoMetadataAfterFailure ==
  /\ metadata.started <= 1
  /\ metadata.started = 1 => (process.state = "reaped" /\ process.exit = 0)
  /\ (process.state = "reaped" /\ process.exit # 0) =>
       /\ metadata.started = 0
       /\ events # <<>>
       /\ IsError(Last(events))
       /\ Last(events).data.message = "Download failed"
       /\ Successes = 0
       /\ pc \in {"return", "done", "closed"}
       /\ (~Streaming /\ hpc = "returned") =>
            (response.code = 400 /\ response.body = "json")

C3_Witness ==
  /\ ~Streaming
  /\ hpc = "returned"
  /\ process.state = "reaped" /\ process.exit = 1
  /\ metadata.started = 0
  /\ response.code = 400

\* C4: a request whose URL is_valid_youtube_url rejects produces exactly one
\* error and nothing else, creates no process of any kind (no tool probe, no
\* download, no metadata query) and does not create the output directory.
C4_InvalidUrlShortCircuit ==
  Rejected =>
    /\ probes = 0
    /\ process = NoProcess
    /\ metadata = NoMetadata
    /\ ~dirCreated
    /\ pc \in {"validate", "return", "done", "closed"}
    /\ Len(events) <= 1
    /\ OrchestratorOver =>
         /\ Len(events) = 1
         /\ IsError(events[1])
         /\ events[1].data.message = "Invalid YouTube URL provided."

C4_Witness ==
  /\ Rejected
  /\ Streaming
  /\ hpc = "returned"
  /\ Len(wire) = 1 /\ wire[1].type = "error"

AbsentTools == {t \in DOMAIN tools : tools[t] = "absent"}

ReportedMissing == {t \in DOMAIN tools : check_tool_exists(tools[t]) = "false"}

CheckRaises == \E t \in DOMAIN tools : check_tool_exists(tools[t]) = "raise"

Named(e) == {e.data.tools[i] : i \in 1..Len(e.data.tools)}

\* C5 (as claimed): when a required tool is missing the request ends with
\* exactly one error naming every missing tool, no process at all has been
\* created, the output directory is not created.
C5_Claim ==
  (Accepted /\ OrchestratorOver /\ AbsentTools # {}) =>
    /\ Len(events) = 1
    /\ IsError(events[1])
    /\ AbsentTools \subseteq Named(events[1])
    /\ probes = 0
    /\ process = NoProcess
    /\ metadata = NoMetadata
    /\ ~dirCreated

\* C5 (amended): when a required tool cannot be run, the request ends with
\* exactly one error, never creates the output directory and never starts a
\* download or metadata subprocess; when the tool check completes the error
\* names exactly the tools it found missing, and the only processes created
\* are the version probes of the required tools that can be started; when
\* the tool check raises, the error is the generic "Unexpected error".
C5_MissingToolShortCircuit ==
  (Accepted /\ \E t \in DOMAIN tools : tools[t] # "ok") =>
    /\ process = NoProcess
    /\ metadata = NoMetadata
    /\ ~dirCreated
    /\ pc \in {"validate", "toolcheck", "return", "done", "closed"}
    /\ Len(events) <= 1
    /\ OrchestratorOver =>
         /\ Len(events) = 1
         /\ IsError(events[1])
         /\ IF CheckRaises
              THEN /\ events[1].data.message = "Unexpected error"
                   /\ probes <= Len(required_tools)
              ELSE /\ events[1].data.message = "Missing required tool(s)"
                   /\ Named(events[1]) = ReportedMissing
                   /\ probes = Cardinality({t \in DOMAIN tools :
                                              ToolRuns(tools[t])})

C5_Witness ==
  /\ Accepted
  /\ tools["yt-dlp"] = "ok" /\ tools["ffmpeg"] = "absent"
  /\ pc = "done"
  /\ probes = 1
  /\ events[1].data.tools = <<"ffmpeg">>

\* C6 (as claimed): in streaming mode, once the client has disconnected and
\* do_GET is over, the download subprocess it started has been terminated
\* and reaped.
C6_Claim ==
  (Streaming /\ ~connected /\ HandlerOver) =>
    process.state \in {"none", "reaped"}

\* C7 (as claimed): every download subprocess the streaming orchestrator
\* started has been waited on exactly once when the request is over, on
\* every path.
C7_Claim ==
  /\ process.waits <= 1
  /\ (Streaming /\ HandlerOver /\ process.state # "none") => process.waits = 1

\* C8: in streaming mode the frames written are the events in the order
\* the generator produced them, none missing and none merged; the generator
\* only runs (and so only reads a further line) when every event it has
\* produced has been written; the frames caused by an earlier line come
\* before the frames caused by a later one.
C8_OrderedDelivery ==
  Streaming =>
    /\ Len(wire) <= Len(events)
    /\ wire = SubSeq(events, 1, Len(wire))
    /\ hpc = "next" => wire = events
    /\ hpc = "write" =>
         (pending = Last(events) /\ Len(wire) = Len(events) - 1)
    /\ \A i, j \in 1..Len(wire) :
         (i < j /\ wire[i].line > 0 /\ wire[j].line > 0)
           => wire[i].line <= wire[j].line
    /\ \A i \in 1..Len(events) :
         /\ events[i].line <= Len(lines)
         /\ (events[i].line > 0 /\ events[i].line < Len(lines))
              => i <= Len(wire)

C8_Witness ==
  /\ Streaming
  /\ Len(lines) = 2
  /\ \E i, j, k \in 1..Len(wire) :
       /\ i < j /\ j < k
       /\ wire[i].line = 1 /\ wire[j].line = 1 /\ wire[k].line = 2

\* C9 (as claimed): when do_GET is over, the body of a streaming response
\* is info and progress frames followed by exactly one terminal frame.
C9_Claim ==
  (Streaming /\ HandlerOver) =>
    /\ wire # <<>>
    /\ IsTerminal(Last(wire))
    /\ \A i \in 1..(Len(wire) - 1) : wire[i].type \in {"info", "progress"}

\* C9 (amended): the frames written to a streaming response are info and
\* progress frames followed by at most one terminal frame, and nothing is
\* written after a terminal frame; when do_GET returns (no write failed) the
\* body ends with exactly one terminal frame.
C9_TerminalFrameLast ==
  Streaming =>
    /\ \A i \in 1..Len(wire) :
         wire[i].type \in {"info", "progress", "complete", "error"}
    /\ \A i \in 1..(Len(wire) - 1) : wire[i].type \in {"info", "progress"}
    /\ hpc = "returned" => (wire # <<>> /\ IsTerminal(Last(wire)))

C9_Witness ==
  /\ Streaming
  /\ hpc = "returned"
  /\ Len(wire) >= 3
  /\ Last(wire).type = "complete"

HasMergeMarker(line) == Contains(line, "[Merger]") \/ Contains(line, "Merging")

MergeLines == {k \in 1..Len(lines) : HasMergeMarker(strip(lines[k]))}

MergingEvents ==
  {i \in 1..Len(events) :
     events[i].type = "info" /\ events[i].data.status = "merging"}

\* C10 (as claimed): when the line loop of a streaming download is over,
\* exactly one merging event was produced if some line carried a merge
\* marker, caused by the first such line, and none otherwise.
C10_Claim ==
  (Streaming /\ pc \in {"wait", "meta"}) =>
    IF MergeLines = {}
      THEN MergingEvents = {}
      ELSE /\ Cardinality(MergingEvents) = 1
           /\ \A i \in MergingEvents :
                \A k \in MergeLines : events[i].line <= k

IsDownloading(e) == e.type = "info" /\ e.data.status = "downloading"

IsMerging(e) == e.type = "info" /\ e.data.status = "merging"

IsProgress(e) == e.type = "progress"

DownloadingEvents == SelectSeq(events, IsDownloading)

\* The stream type that output line announces: that of a destination line
\* whose name shows one, none for every other line.
Announces(line) ==
  IF ContainsDestination(strip(line))
    THEN new_stream_type(strip(line))
    ELSE "None"

\* The checks of the loop body have been applied to line k.
Processed(k) ==
  \/ k < Len(lines)
  \/ k = Len(lines) /\ pc \in {"read", "wait", "meta", "return", "done"}

\* C11: an event with status downloading is produced only by a destination
\* line whose stream type differs from the current one: two such events in
\* a row never carry the same stream type, a destination line that repeats
\* the line before it produces none, and the current stream type is always
\* the one of the last such event (none before the first).
C11_IdempotentSignalling ==
  /\ \A i \in 1..(Len(DownloadingEvents) - 1) :
       DownloadingEvents[i].data.stream_type
         # DownloadingEvents[i + 1].data.stream_type
  /\ \A i \in 1..Len(events) :
       IsDownloading(events[i]) =>
         /\ events[i].line \in 1..Len(lines)
         /\ events[i].data.stream_type # "None"
         /\ events[i].data.stream_type = Announces(lines[events[i].line])
  /\ \A k \in 1..(Len(lines) - 1) :
       lines[k] = lines[k + 1] =>
         ~\E i \in 1..Len(events) :
            IsDownloading(events[i]) /\ events[i].line = k + 1
  /\ current_stream_type =
       IF DownloadingEvents = <<>>
         THEN "None"
         ELSE Last(DownloadingEvents).data.stream_type

C11_Witness ==
  /\ lines = << <<"[download]", "Destination:", "a.m4a">>,
                <<"[download]", "Destination:", "a.m4a">> >>
  /\ pc = "read"
  /\ Len(DownloadingEvents) = 1
  /\ DownloadingEvents[1].line = 1
  /\ current_stream_type = "audio"
  /\ wire = events

\* C17 (as claimed): every output line with a merge marker that the loop
\* has processed produced the merging event and no progress event, and no
\* line produced both.
C17_Claim ==
  \A k \in 1..Len(lines) :
    /\ (HasMergeMarker(strip(lines[k])) /\ Processed(k)) =>
         /\ \E i \in 1..Len(events) :
              IsMerging(events[i]) /\ events[i].line = k
         /\ ~\E i \in 1..Len(events) :
              IsProgress(events[i]) /\ events[i].line = k
    /\ ~\E i, j \in 1..Len(events) :
         /\ IsMerging(events[i]) /\ events[i].line = k
         /\ IsProgress(events[j]) /\ events[j].line = k

\* A streaming request for a valid URL with every tool present, whose
\* subprocess wrote the destination line of an .m4a file and one progress
\* line and exited with status 0, has been served to its end.
C18_Scenario ==
  /\ Streaming
  /\ Accepted
  /\ \A t \in DOMAIN tools : tools[t] = "ok"
  /\ lines = << <<"[download]", "Destination:", "a.m4a">>,
                <<"[download]", " ", "42.0%", "of", "10MiB", "at", "1MiB/s",
                  "ETA", "00:05">> >>
  /\ process.state = "reaped" /\ process.exit = 0
  /\ hpc = "returned"

\* C18: in that scenario the client has received, after the starting event
\* and in this order, an info event with status downloading and stream type
\* audio, a progress event with the percent (42.0), total size, speed and
\* ETA of the progress line and stream type audio, and a complete event;
\* nothing else.
C18_AudioScenario ==
  C18_Scenario =>
    /\ Len(wire) = 4
    /\ wire[1] = send_event("info", Info("starting"), 0)
    /\ wire[2] = send_event("info", Downloading("audio"), 1)
    /\ wire[3] = send_event("progress",
                   [percent |-> 420, stream_type |-> "audio",
                    total_size |-> "10MiB", speed |-> "1MiB/s",
                    eta |-> "00:05", sent |-> TRUE], 2)
    /\ wire[4].type = "complete"

C18_Witness ==
  /\ C18_Scenario
  /\ metadata.outcome = "ok"
  /\ Last(wire).data.message = "Video downloaded successfully."

\* The stream type in force once the first k lines have been processed:
\* that of the most recent line that announces one.
RECURSIVE StickyKind(_)
StickyKind(k) ==
  IF k = 0
    THEN "None"
    ELSE IF Announces(lines[k]) # "None"
      THEN Announces(lines[k])
      ELSE StickyKind(k - 1)

\* C20: every progress event carries the stream type of the most recent
\* destination line, up to the line that caused the event, that showed
\* audio or video, and none when there was no such line; the current stream
\* type is that same value for the lines processed so far, so no other line
\* changes it.
C20_StickyStreamKind ==
  /\ \A i \in 1..Len(events) :
       IsProgress(events[i]) =>
         events[i].data.stream_type = StickyKind(events[i].line)
  /\ current_stream_type =
       StickyKind(IF pc = "destination" THEN Len(lines) - 1 ELSE Len(lines))

C20_Witness ==
  /\ Len(lines) = 2
  /\ lines[1] = <<"[download]", "Destination:", "v.mp4">>
  /\ Announces(lines[2]) = "None"
  /\ current_stream_type = "video"
  /\ \E i \in 1..Len(wire) :
       /\ IsProgress(wire[i])
       /\ wire[i].line = 2
       /\ wire[i].data.stream_type = "video"

\* C12 (as claimed): no exception raised by a write to the client leaves
\* do_GET while it serves a streaming request.
C12_Claim == Streaming => hpc # "raised"

\* The request is a non-streaming download request that yt_download has
\* answered and do_GET has written as JSON.
SyncJson ==
  /\ request.path = "/yt_download"
  /\ request.url # <<>> /\ ~request.stream
  /\ hpc = "returned"
  /\ response.body = "json"

\* C13 (as claimed): the status code of a non-streaming download answered
\* as JSON is 200 for a success, 500 when the result reports an unexpected
\* internal fault, and 400 for every other error.
C13_Claim ==
  SyncJson =>
    response.code =
      IF Last(events).data.status = "success"
        THEN 200
        ELSE IF Last(events).data.message = "Unexpected error"
          THEN 500
          ELSE 400

\* Nothing has been run and no orchestrator function has been called.
NothingRun ==
  /\ probes = 0
  /\ process = NoProcess
  /\ metadata = NoMetadata
  /\ shell = <<>>
  /\ events = <<>>
  /\ pc = "idle"

\* C14 (as claimed): on both endpoints a request without url is answered
\* 400 with the JSON body of status "error" and message "Missing 'url' query
\* parameter.", and nothing is run.
C14_Claim ==
  (request.path \in Paths /\ request.url = <<>>) =>
    /\ hpc = "returned"
    /\ response = JsonResponse(400,
         {<<"status", "error">>,
          <<"message", "Missing 'url' query parameter.">>})
    /\ NothingRun

\* The request is a non-streaming download request with binary=true whose
\* result is a success and which do_GET has answered.
SyncBinarySuccess ==
  /\ request.path = "/yt_download"
  /\ request.url # <<>> /\ ~request.stream /\ request.binary
  /\ hpc = "returned"
  /\ IsSuccess(Last(events))

\* The value of a Content-Disposition header: the attachment prefix and
\* then a file name without a blank or a double quote in it.
IsEncodedAttachment(value) ==
  /\ value # <<>>
  /\ value[1] = "attachment; filename*=UTF-8''"
  /\ Len(value) > 1
  /\ \A i \in 2..Len(value) : value[i] \notin {" ", "\""}

\* C15 (as claimed): a successful non-streaming request with binary=true is
\* answered with the bytes of the file, a video content type and the
\* attachment header, never with JSON.
C15_Claim ==
  SyncBinarySuccess =>
    /\ response.body = "video_bytes"
    /\ response.content_type = "video/mp4"
    /\ IsEncodedAttachment(response.disposition)

\* C15 (amended): a successful non-streaming request with binary=true is
\* answered 200 with the bytes of the file, content type video/mp4 and an
\* attachment header carrying the percent-encoded file name exactly when
\* the file exists under the name derived from the reported title; when it
\* does not, the answer is the result as JSON with status 200 and no
\* attachment header.
C15_BinaryWhenAvailable ==
  SyncBinarySuccess =>
    /\ response.code = 200
    /\ IF Last(events).data.video_bytes
         THEN /\ response.body = "video_bytes"
              /\ response.content_type = "video/mp4"
              /\ IsEncodedAttachment(response.disposition)
              /\ Last(events).data.file = <<"a", " ", "b", ".", "m", "p", "4">>
                   => response.disposition =
                        <<"attachment; filename*=UTF-8''", "a", "%", "2",
                          "0", "b", ".", "m", "p", "4">>
         ELSE /\ response.body = "json"
              /\ response.content_type = "application/json"
              /\ response.disposition = <<>>
              /\ response.json =
                   {<<"status", "success">>,
                    <<"message", "Video downloaded successfully.">>}

C15_Witness ==
  /\ SyncBinarySuccess
  /\ response.body = "video_bytes"
  /\ Last(events).data.file = <<"a", " ", "b", ".", "m", "p", "4">>

\* C16 (as claimed): once the download subprocess has exited, the request
\* reaches its end (do_GET is over) whatever the metadata subprocess does.
C16_Claim == (process.exit >= 0) ~> HandlerOver

\* C19: in streaming mode the download subprocess is started only when the
\* starting event has been produced and written to the client as the first
\* frame and the output directory exists (made by os.makedirs, or there
\* before and left as it was); every event caused by an output line comes
\* after the starting event; and a request that passed the URL check and the
\* tool check has the starting event as its first event.
C19_StartingBeforeSpawn ==
  Streaming =>
    /\ process.state # "none" =>
         /\ wire # <<>>
         /\ wire[1] = send_event("info", Info("starting"), 0)
         /\ dirCreated /\ outdir = "present"
    /\ \A i \in 1..Len(events) :
         events[i].line > 0 =>
           (i > 1 /\ events[1] = send_event("info", Info("starting"), 0))
    /\ pc \in {"spawn", "read", "destination", "progress", "wait", "meta"} =>
         (events # <<>> /\ events[1] = send_event("info", Info("starting"), 0))

C19_Witness ==
  /\ Streaming
  /\ process.state = "running"
  /\ outdir = "present" /\ dirCreated
  /\ Len(wire) = 2
  /\ wire[1].data.status = "starting"
  /\ wire[2].line = 1

\* C21 (as claimed): every progress event written to the client carries a
\* percent between 0 and 100 (in tenths: 0 and 1000).
C21_Claim ==
  \A i \in 1..Len(wire) :
    IsProgress(wire[i]) =>
      (wire[i].data.percent >= 0 /\ wire[i].data.percent <= 1000)

\* The line carries both progress markers.
ProgressMarked(line) == Contains(line, "[download]") /\ Contains(line, "%")

\* A line from which no progress can be read or to which no check applies:
\* progress-marked with a second token that is missing or not a number, or
\* empty, or without any marker the loop looks for.
Silent(line) ==
  \/ /\ ProgressMarked(line)
     /\ \/ Len(split(line)) < 2
        \/ ~IsFloat(rstrip_percent(split(line)[2]))
  \/ line = <<>>
  \/ /\ ~ProgressMarked(line)
     /\ ~ContainsDestination(line)
     /\ ~HasMergeMarker(line)

\* C22 (as claimed): a processed line that is progress-marked with a second
\* token missing or not a number, or empty, or matching no rule, has
\* produced no event at all.
C22_Claim ==
  \A k \in 1..Len(lines) :
    (Silent(strip(lines[k])) /\ Processed(k)) =>
      ~\E i \in 1..Len(events) : events[i].line = k

\* C22 (amended): such a line produces no progress event, no merging event
\* and no error; the only event it can produce is the downloading event of
\* a destination line whose file name contains '%'. Its checks raise
\* nothing: they leave the loop where it is or at the next read, with no
\* fault and no event but that one, so the lines after it are still read
\* and processed.
C22_ParsingNeverFails ==
  /\ [](\A k \in 1..Len(lines) :
         (Silent(strip(lines[k])) /\ Processed(k)) =>
           \A i \in 1..Len(events) :
             events[i].line = k =>
               (IsDownloading(events[i])
                  /\ ContainsDestination(strip(lines[k]))))
  /\ [][(/\ hpc = "next"
          /\ pc \in {"destination", "progress"}
          /\ Silent(strip(lines[Len(lines)])))
          => (/\ pc' \in {"destination", "progress", "read"}
              /\ fault' = fault
              /\ lines' = lines
              /\ \A i \in 1..Len(events') :
                   i > Len(events) => IsDownloading(events'[i]))]_vars

C22_Witness ==
  /\ Len(lines) = 2
  /\ lines[1] = <<"[download]", "Destination:", "Merging", "50%.mp4">>
  /\ lines[2] = <<"[download]", " ", "42.0%", "of", "10MiB", "at", "1MiB/s",
                  "ETA", "00:05">>
  /\ ~fault
  /\ \E i \in 1..Len(wire) : IsProgress(wire[i]) /\ wire[i].line = 2
  /\ ~\E i \in 1..Len(wire) : IsProgress(wire[i]) /\ wire[i].line = 1

AudioMarked(line) ==
  \E m \in {".m4a", ".webm", ".opus", "audio"} : LowerContains(line, m)

VideoMarked(line) == \E m \in {".mp4", "video"} : LowerContains(line, m)

\* C29: audio markers come before video markers. A downloading event comes
\* from a destination line; it says video only when the line has no audio
\* marker ('.m4a', '.webm', '.opus', 'audio', whatever the case) and has
\* '.mp4' or 'video', and audio only when the line has an audio marker.
\* Once a destination line is processed, the current stream type is audio
\* if it has an audio marker (so for every '.webm' file), video if it has
\* only a video marker; with no marker at all it has produced no event.
C29_AudioPrecedence ==
  /\ \A i \in 1..Len(events) :
       IsDownloading(events[i]) =>
         LET line == strip(lines[events[i].line])
         IN /\ ContainsDestination(line)
            /\ events[i].data.stream_type = "video" =>
                 (~AudioMarked(line) /\ VideoMarked(line))
            /\ events[i].data.stream_type = "audio" => AudioMarked(line)
  /\ \A k \in 1..Len(lines) :
       LET line == strip(lines[k])
       IN (ContainsDestination(line) /\ Processed(k)) =>
            /\ (k = Len(lines) /\ AudioMarked(line)) =>
                 current_stream_type = "audio"
            /\ (k = Len(lines) /\ ~AudioMarked(line) /\ VideoMarked(line)) =>
                 current_stream_type = "video"
            /\ LowerContains(line, ".webm") =>
                 ~\E i \in 1..Len(events) :
                    /\ events[i].line = k
                    /\ IsDownloading(events[i])
                    /\ events[i].data.stream_type = "video"
            /\ (~AudioMarked(line) /\ ~VideoMarked(line)) =>
                 ~\E i \in 1..Len(events) : events[i].line = k

C29_Witness ==
  /\ lines = << <<"[download]", "Destination:", "Audio.MP4">>,
                <<"[download]", "Destination:", "v.mp4">> >>
  /\ pc = "read"
  /\ Len(DownloadingEvents) = 2
  /\ DownloadingEvents[1].data.stream_type = "audio"
  /\ DownloadingEvents[2].data.stream_type = "video"

\* The progress event that line k produced has the fields of the mapping.
SameProgress(e, mapping) ==
  /\ e.data.percent = mapping.percent
  /\ e.data.total_size = mapping.total_size
  /\ e.data.speed = mapping.speed
  /\ e.data.eta = mapping.eta

\* C30: for every output line that was read, detect_stream_type gives the
\* stream type the inline destination check computes, and every downloading
\* event carries it; for every line that was processed, parse_progress_line
\* returns a mapping exactly when the inline code produced a progress event
\* for the line, and that event has the percent, total_size, speed and eta
\* of the mapping.
C30_HelpersAgree ==
  /\ \A k \in 1..Len(lines) :
       detect_stream_type(lines[k]) =
         IF ContainsDestination(strip(lines[k]))
           THEN new_stream_type(strip(lines[k]))
           ELSE "None"
  /\ \A i \in 1..Len(events) :
       IsDownloading(events[i]) =>
         events[i].data.stream_type =
           detect_stream_type(lines[events[i].line])
  /\ \A k \in 1..Len(lines) :
       Processed(k) =>
         /\ ~parse_progress_line(lines[k]).none <=>
              \E i \in 1..Len(events) :
                IsProgress(events[i]) /\ events[i].line = k
         /\ \A i \in 1..Len(events) :
              (IsProgress(events[i]) /\ events[i].line = k) =>
                SameProgress(events[i], parse_progress_line(lines[k]))

C30_Witness ==
  /\ Len(lines) = 2
  /\ pc = "read"
  /\ detect_stream_type(lines[1]) = "audio"
  /\ ~parse_progress_line(lines[2]).none
  /\ parse_progress_line(lines[2]).percent = 420
  /\ \E i \in 1..Len(events) : IsProgress(events[i]) /\ events[i].line = 2

\* C25 (as claimed): every command line handed to the shell makes it run
\* exactly one command, the program yt-dlp with the options -j and
\* --no-warnings and the whole URL of the request as its one further
\* argument.
C25_Claim ==
  \A i \in 1..Len(shell) :
    sh(shell[i]) =
      << << <<"yt-dlp">>, <<"-j">>, <<"--no-warnings">>, request.url >> >>

\* The request is a download request with stream=true and a url.
StreamRequested ==
  /\ request.path = "/yt_download"
  /\ request.stream
  /\ request.url # <<>>

\* C27: a download request with stream=true and a non-empty url has status
\* 200 and content type text/event-stream from the moment do_GET takes it,
\* before the URL is validated and before any event exists, and keeps them
\* to the end; an invalid URL, a tool that cannot be run, a failed download
\* and a fault outside the metadata step each end the events with an error
\* event.
C27_StreamAlways200 ==
  StreamRequested =>
    /\ response.code = 200
    /\ response.content_type = "text/event-stream"
    /\ response.body = "event-stream"
    /\ pc = "validate" => (events = <<>> /\ wire = <<>>)
    /\ (/\ pc \in {"return", "done"}
        /\ \/ ~is_valid_youtube_url(request.url)
           \/ \E t \in DOMAIN tools : tools[t] # "ok"
           \/ process.exit > 0
           \/ fault /\ metadata.started = 0)
         => (events # <<>> /\ Last(events).type = "error")

C27_Witness ==
  /\ StreamRequested
  /\ is_valid_youtube_url(request.url)
  /\ tools["yt-dlp"] = "absent"
  /\ hpc = "returned"
  /\ response.code = 200
  /\ Len(wire) = 1
  /\ wire[1].type = "error"
  /\ wire[1].data.message = "Missing required tool(s)"

\* do_GET has called yt_details and yt_details is over.
DetailsOver ==
  /\ request.path = "/yt_details"
  /\ request.url # <<>>
  /\ hpc \in {"answer", "returned", "raised"}

\* C28 (as claimed): yt_details always returns a result to do_GET, with
\* status error when a fault occurred inside it.
C28_Claim ==
  DetailsOver =>
    /\ events # <<>>
    /\ Last(events).type = "result"
    /\ fault => Last(events).data.status = "error"

\* A details request got a successful result and do_GET wrote it, whole, as
\* the JSON body of the answer.
DetailsSuccess ==
  /\ request.path = "/yt_details"
  /\ hpc = "returned"
  /\ response.body = "json"
  /\ events # <<>>
  /\ Last(events).data.status = "success"

\* The four keys of a format that formats_available keeps.
Kept(f) == [format_id |-> f.format_id, ext |-> f.ext,
            resolution |-> f.resolution,
            filesize_approx |-> f.filesize_approx]

\* formats_available is, entry by entry and in order, the first min(5, n)
\* of the n formats reported.
FirstFive(result) ==
  LET n == Len(result.raw.formats)
      m == IF n < 5 THEN n ELSE 5
  IN /\ Len(result.formats_available) = m
     /\ \A i \in 1..m :
          result.formats_available[i] = Kept(result.raw.formats[i])

\* C23 (as claimed): in a successful details answer the format list is the
\* first min(5, n) of the n formats reported, in order, and no format list
\* of the answer has more than 5 entries.
C23_Claim ==
  DetailsSuccess =>
    /\ FirstFive(Last(events).data)
    /\ Len(Last(events).data.formats_available) <= 5
    /\ Len(Last(events).data.raw.formats) <= 5

\* C23 (amended): in a successful details answer, formats_available holds
\* the format_id, ext, resolution and filesize_approx of exactly the first
\* min(5, n) of the n formats reported, in the same order, and never more
\* than 5 entries; the answer also carries the whole output of yt-dlp
\* under "raw", whose format list has all n entries.
C23_FormatsLimited ==
  DetailsSuccess =>
    /\ FirstFive(Last(events).data)
    /\ Len(Last(events).data.formats_available) <= 5
    /\ \E n \in 0..Len(Last(events).data.raw.formats) :
         /\ n = Len(Last(events).data.raw.formats)
         /\ Last(events).data.raw.formats = Formats(n)

C23_Witness ==
  /\ DetailsSuccess
  /\ Len(Last(events).data.raw.formats) = 6
  /\ Len(Last(events).data.formats_available) = 5
  /\ Last(events).data.formats_available[5].format_id = 5

\* What a conformant client makes of a frame: the lines it is made of, each
\* ended by a line feed.
RECURSIVE LinesFrom(_, _, _)
LinesFrom(text, i, line) ==
  IF i > Len(text)
    THEN IF line = <<>> THEN <<>> ELSE << line >>
    ELSE IF text[i] = "\n"
      THEN << line >> \o LinesFrom(text, i + 1, <<>>)
      ELSE LinesFrom(text, i + 1, Append(line, text[i]))

LinesOf(text) == LinesFrom(text, 1, <<>>)

\* The character a \u escape of four digits stands for.
Unicode(digits) == IF digits = <<"0", "0", "e", "9">> THEN "U+00E9" ELSE "?"

\* The characters of a JSON string literal from position i on, as a JSON
\* parser reads them.
RECURSIVE loads_chars(_, _)
loads_chars(text, i) ==
  IF i > Len(text)
    THEN <<>>
    ELSE IF text[i] = "\\" /\ i < Len(text)
      THEN IF text[i + 1] = "n"
             THEN <<"\n">> \o loads_chars(text, i + 2)
             ELSE IF text[i + 1] = "u" /\ i + 5 <= Len(text)
               THEN <<Unicode(SubSeq(text, i + 2, i + 5))>>
                      \o loads_chars(text, i + 6)
               ELSE <<text[i + 1]>> \o loads_chars(text, i + 2)
      ELSE <<text[i]>> \o loads_chars(text, i + 1)

\* The payload a JSON parser reads from the data of a frame; a status of
\* "?" when the data is not the object it expects.
loads(json) ==
  IF /\ Len(json) >= 12
     /\ SubSeq(json, 1, 4) = <<"{", "\"status\"", ": ", "\"">>
     /\ SubSeq(json, 6, 10) = <<"\"", ", ", "\"message\"", ": ", "\"">>
     /\ SubSeq(json, Len(json) - 1, Len(json)) = <<"\"", "}">>
    THEN [status |-> json[5],
          message |-> loads_chars(SubSeq(json, 11, Len(json) - 2), 1)]
    ELSE [status |-> "?", message |-> <<>>]

\* C24: every frame written is three lines, one "event:" line with the
\* event type, one "data:" line and an empty line, so the data has no line
\* feed of its own even when the message has one; and a client that reads
\* the data line as JSON gets the payload that was encoded, with the same
\* status and the same message, character by character.
C24_RoundTrip ==
  /\ Len(wire) <= Len(events)
  /\ \A i \in 1..Len(wire) :
       LET ls == LinesOf(wire[i])
       IN /\ Len(ls) = 3
          /\ ls[1] = <<"event: ", events[i].type>>
          /\ Len(ls[2]) > 1 /\ ls[2][1] = "data: "
          /\ ls[3] = <<>>
          /\ loads(Tail(ls[2])) = events[i].data

C24_Witness ==
  /\ Len(wire) = 1
  /\ events[1].data.message = <<"a", "\n", "U+00E9">>
  /\ LinesOf(wire[1])[2] =
       <<"data: ", "{", "\"status\"", ": ", "\"", "error", "\"", ", ",
         "\"message\"", ": ", "\"", "a", "\\", "n", "\\", "u", "0", "0",
         "e", "9", "\"", "}">>

\* The download subprocesses the server has started that are running.
RunningDownloads == orphans + Unreaped

\* C26: at every moment at most one download subprocess started by the
\* server is running, after any sequence of requests, those whose client
\* disconnected before the download finished included.
C26_Claim == RunningDownloads <= 1

====
